---- MODULE Spec2Model ----
(***************************************************************************)
(* A model of src/src/mon-summon.c: the summon registry (create_summons,   *)
(* summon_name_to_idx, summon_desc), the eligibility predicate             *)
(* (summon_specific_okay), calling an existing monster (call_monster),     *)
(* summoning (summon_specific) and shape selection (select_shape).         *)
(*                                                                         *)
(* C arrays are 0-based; the table summons is held as a TLA+ sequence, so  *)
(* the C entry summons[i] is summons[i + 1] here.                          *)
(***************************************************************************)
EXTENDS Integers, Sequences, FiniteSets, TLC

VARIABLES
    parsed_summons,        \* the parser's list handed to create_summons
    summons,               \* struct summon *summons (the table)
    summon_max,            \* static int summon_max
    summon_specific_type,  \* static int summon_specific_type
    kin_base,              \* struct monster_base *kin_base
    mon_num_hook,          \* the restriction get_mon_num_prep installed
    monsters,              \* cave's monster array, indices 1 .. MaxMon
    squares,               \* cave's terrain, one feature per cell
    player,                \* player->depth and player->state.speed
    crashed,               \* the process died on undefined behaviour
    result                 \* what the last call returned and did

vars == <<parsed_summons, summons, summon_max, summon_specific_type, kin_base,
          mon_num_hook, monsters, squares, player, crashed, result>>

\* ------------------------------------------------------------------ bounds

\* Longest parsed list handed to create_summons in the registry specification.
MaxRecords == 2

\* The cave is a corridor of cells 0 .. MaxCell.
MaxCell == 4

\* The cave's monster array has entries 1 .. MaxMon.
MaxMon == 3

\* ------------------------------------------------------------- C helpers

\* A null pointer (a string never used as a name).
NULL == "NULL"

\* RF_NONE: summon->race_flag is zero when the record requires no flag.
RF_NONE == "NONE"

\* C's integer division truncates toward zero.
CDiv(a, b) ==
    IF a >= 0 THEN a \div b ELSE -((-a) \div b)

\* ---------------------------------------------------------------- registry

\* A record as the parser leaves it (fallback is resolved by create_summons).
SummonRec(name, fallback_name, unique_allowed, race_flag, bases) ==
    [name |-> name, desc |-> name, fallback_name |-> fallback_name,
     fallback |-> 0, unique_allowed |-> unique_allowed,
     race_flag |-> race_flag, bases |-> bases]

\* An entry of the table as mem_zalloc leaves it: every field zero.
ZeroSummon ==
    [name |-> NULL, desc |-> NULL, fallback_name |-> NULL, fallback |-> 0,
     unique_allowed |-> FALSE, race_flag |-> RF_NONE, bases |-> <<>>]

\* summon_max after the counting loop and the later "summon_max += 1".
CountedMax(list) == Len(list) + 1

\* The loop of summon_name_to_idx over table tab with bound max, from index i.
\* ret is the value returned; compared is the set of entries whose name was
\* handed to streq; null_deref says streq was handed a null entry name, which
\* is undefined behaviour (strcmp of a null pointer), at entry ret_at.
RECURSIVE NameScan(_, _, _, _)
NameScan(tab, max, name, i) ==
    IF i >= max
    THEN [ret |-> -1, compared |-> {}, null_deref |-> FALSE, at |-> -1]
    ELSE IF name = NULL
    THEN NameScan(tab, max, name, i + 1)
    ELSE IF tab[i + 1].name = NULL
    THEN [ret |-> -1, compared |-> {i}, null_deref |-> TRUE, at |-> i]
    ELSE IF name = tab[i + 1].name
    THEN [ret |-> i, compared |-> {i}, null_deref |-> FALSE, at |-> -1]
    ELSE LET r == NameScan(tab, max, name, i + 1)
         IN  [r EXCEPT !.compared = @ \cup {i}]

\* What a call of summon_name_to_idx can do: return ret, or, once streq has
\* been handed a null pointer, anything the build does with it: die, take the
\* entry as equal (return its index) or as different (go on to the end, -1).
ScanOutcomes(scan) ==
    IF scan.null_deref
    THEN {[crash |-> TRUE, ret |-> -1],
          [crash |-> FALSE, ret |-> scan.at],
          [crash |-> FALSE, ret |-> -1]}
    ELSE {[crash |-> FALSE, ret |-> scan.ret]}

\* summon_name_to_idx on the current table.
summon_name_to_idx(name) == NameScan(summons, summon_max, name, 0)

\* The table create_summons allocates and fills, before fallbacks are resolved.
CopiedTable(list) ==
    [i \in 1 .. (Len(list) + 1) |->
        IF i <= Len(list) THEN list[i] ELSE ZeroSummon]

\* The fallback loop of create_summons: entry count gets the outcome fb[count]
\* of its lookup; the loop stops at the first lookup that kills the process.
ResolvedTable(tab, max, fb) ==
    [i \in 1 .. Len(tab) |->
        IF i <= max /\ \A j \in 1 .. i : ~fb[j].crash
        THEN [tab[i] EXCEPT !.fallback = fb[i].ret]
        ELSE tab[i]]

create_summons ==
    /\ ~crashed
    /\ summons = <<>>
    /\ LET tab == CopiedTable(parsed_summons)
           max == CountedMax(parsed_summons)
           out == [i \in 1 .. max |->
                      ScanOutcomes(NameScan(tab, max, tab[i].fallback_name, 0))]
       IN  \E fb \in [1 .. max -> UNION {out[i] : i \in 1 .. max}] :
             /\ \A i \in 1 .. max : fb[i] \in out[i]
             /\ summons' = ResolvedTable(tab, max, fb)
             /\ summon_max' = max
             /\ crashed' = (\E i \in 1 .. max : fb[i].crash)
             /\ result' = [op |-> "create_summons"]
    /\ UNCHANGED <<parsed_summons, summon_specific_type, kin_base, mon_num_hook,
                   monsters, squares, player>>

\* Names handed to summon_name_to_idx by callers: table names, a null
\* pointer, the empty string and a name no record has.
LookupNames == {"KIN", "HOUND", "UNIQUE", NULL, "", "BOGUS"}

lookup(name) ==
    /\ ~crashed
    /\ summons # <<>>
    /\ LET scan == summon_name_to_idx(name)
       IN  \E o \in ScanOutcomes(scan) :
             /\ crashed' = o.crash
             /\ result' = [op |-> "lookup", name |-> name, ret |-> o.ret,
                           compared |-> scan.compared, crash |-> o.crash]
    /\ UNCHANGED <<parsed_summons, summons, summon_max, summon_specific_type,
                   kin_base, mon_num_hook, monsters, squares, player>>

\* summon_desc: the bound check against summon_max, then the entry's desc.
summon_desc(type) ==
    IF type < 0 \/ type >= summon_max THEN NULL ELSE summons[type + 1].desc

\* The entries summon_desc reads for type.
summon_desc_reads(type) ==
    IF type < 0 \/ type >= summon_max THEN {} ELSE {type}

describe(type) ==
    /\ ~crashed
    /\ summons # <<>>
    /\ result' = [op |-> "describe", type |-> type, ret |-> summon_desc(type),
                  reads |-> summon_desc_reads(type)]
    /\ UNCHANGED <<parsed_summons, summons, summon_max, summon_specific_type,
                   kin_base, mon_num_hook, monsters, squares, player, crashed>>

\* --------------------------------------------- the registry specification

RegNames == {"KIN", "HOUND", "UNIQUE"}

\* Parsed lists: up to MaxRecords records with distinct names, each with a
\* fallback name that is absent or any name.
ParsedLists ==
    UNION {
      {l \in [1 .. n -> {SummonRec(nm, fb, FALSE, RF_NONE, <<>>) :
                            nm \in RegNames, fb \in RegNames \cup {NULL}}] :
          \A i, j \in 1 .. n : i # j => l[i].name # l[j].name}
      : n \in 0 .. MaxRecords}

NoCave ==
    /\ summon_specific_type = 0
    /\ kin_base = NULL
    /\ mon_num_hook = NULL
    /\ monsters = <<>>
    /\ squares = <<>>
    /\ player = [depth |-> 0, speed |-> 0]

InitRegistry ==
    /\ parsed_summons \in ParsedLists
    /\ summons = <<>>
    /\ summon_max = 0
    /\ crashed = FALSE
    /\ result = [op |-> "none"]
    /\ NoCave

NextRegistry ==
    \/ create_summons
    \/ \E name \in LookupNames : lookup(name)
    \/ \E type \in -1 .. (MaxRecords + 2) : describe(type)

SpecRegistry == InitRegistry /\ [][NextRegistry]_vars

\* ------------------------------------------------------------ monster races

RF_UNIQUE == "UNIQUE"
RF_UNDEAD == "UNDEAD"

\* Monster bases (struct monster_base), compared by identity.
Bases == {"canine", "wraith"}

\* The race table: every combination of base and flags, with levels that
\* include 0 (a town race) and speeds below, at and above the player's.
r_info ==
    << [base |-> "canine", flags |-> {},                     level |-> 0, speed |-> 110],
       [base |-> "canine", flags |-> {RF_UNDEAD},            level |-> 2, speed |-> 100],
       [base |-> "canine", flags |-> {RF_UNIQUE},            level |-> 3, speed |-> 131],
       [base |-> "canine", flags |-> {RF_UNIQUE, RF_UNDEAD}, level |-> 4, speed |-> 110],
       [base |-> "wraith", flags |-> {},                     level |-> 2, speed |-> 131],
       [base |-> "wraith", flags |-> {RF_UNDEAD},            level |-> 0, speed |-> 100],
       [base |-> "wraith", flags |-> {RF_UNIQUE},            level |-> 5, speed |-> 100],
       [base |-> "wraith", flags |-> {RF_UNIQUE, RF_UNDEAD}, level |-> 3, speed |-> 131] >>

\* Race pointers: an index into r_info, or NoRace for a null pointer.
RaceIds == 1 .. Len(r_info)
NoRace == 0

rf_has(flags, flag) == flag \in flags

\* ------------------------------------------------- the eligibility predicate

\* The loop over summon->bases: true when the list is empty or the loop breaks
\* on a match, false when it reaches the last node without one.
BasesScan_HeadOnly(bases, k, base) ==
    IF k > Len(bases) THEN TRUE ELSE bases[k] = base

RECURSIVE BasesScan(_, _, _)
BasesScan(bases, k, base) ==
    IF k > Len(bases) THEN TRUE
    ELSE IF base = bases[k] THEN TRUE
    ELSE IF k = Len(bases) THEN FALSE
    ELSE BasesScan(bases, k + 1, base)

\* The "summon kin" case: the value returned when the active type is "KIN".
KinRule_BaseOnly(race, kin) == race.base = kin

KinRule(race, kin) ==
    ~rf_has(race.flags, RF_UNIQUE) /\ race.base = kin

\* summon_specific_okay with the active type, the table and kin_base explicit.
SummonOkay(tab, max, type, kin, race) ==
    LET summon == tab[type + 1]
        unique == rf_has(race.flags, RF_UNIQUE)
    IN  IF ~summon.unique_allowed /\ unique THEN FALSE
        ELSE IF ~BasesScan(summon.bases, 1, race.base) THEN FALSE
        ELSE IF summon.race_flag # RF_NONE /\ ~rf_has(race.flags, summon.race_flag)
        THEN FALSE
        ELSE IF type = NameScan(tab, max, "KIN", 0).ret THEN KinRule(race, kin)
        ELSE TRUE

\* summon_specific_okay(race) as the code reads it, from the globals.
summon_specific_okay(race) ==
    SummonOkay(summons, summon_max, summon_specific_type, kin_base, race)

\* The names the code looks up by literal are names of the table, so that no
\* such lookup reaches the zeroed entry.
LiteralsResolve ==
    \A name \in {"KIN", "UNIQUE", "WRAITH"} :
        ~summon_name_to_idx(name).null_deref

\* ------------------------------------------------------- the weighted pool

\* The hook get_mon_num_prep installs: summon_specific_okay, or none.
OkayHook == "summon_specific_okay"

\* get_mon_num under hook with the given active type: no race, or any race
\* the hook admits (the level only biases the draw).
get_mon_num(hook, type, level) ==
    {NoRace} \cup {r \in RaceIds :
                     hook = NULL \/ SummonOkay(summons, summon_max, type, kin_base, r_info[r])}

\* The hook left installed by the last get_mon_num_prep of select_shape.
ShapeFinalHook == NULL

\* select_shape(mon, type); mon is not used by the code.
select_shape(type) ==
    /\ ~crashed
    /\ summons # <<>>
    /\ ~summon_name_to_idx("KIN").null_deref
    /\ summon_specific_type' = type
    /\ \E race \in get_mon_num(OkayHook, type, player.depth + 5) :
         result' = [op |-> "select_shape", type |-> type, ret |-> race]
    /\ mon_num_hook' = ShapeFinalHook
    /\ UNCHANGED <<parsed_summons, summons, summon_max, kin_base, monsters,
                   squares, player, crashed>>

\* ------------------------------------------------------------------ the cave

Cells == 0 .. MaxCell

\* Terrain features: open floor, a wall, a glyph of warding, a decoy.
Features == {"floor", "wall", "ward", "decoy"}

\* An unused entry of the monster array (its race pointer is null).
DeadMon ==
    [race |-> NoRace, grid |-> 0, energy |-> 0, hold |-> 0,
     asleep |-> FALSE, aware |-> FALSE]

distance(a, b) == IF a >= b THEN a - b ELSE b - a

\* square_monster: the entry of the live monster standing on cell c, or 0.
square_monster(mons, c) ==
    IF \E i \in 1 .. MaxMon : mons[i].race # NoRace /\ mons[i].grid = c
    THEN CHOOSE i \in 1 .. MaxMon : mons[i].race # NoRace /\ mons[i].grid = c
    ELSE 0

square_isempty(c) == squares[c] # "wall" /\ square_monster(monsters, c) = 0
square_iswarded(c) == squares[c] = "ward"
square_isdecoyed(c) == squares[c] = "decoy"

\* los: no wall stands between the two cells.
los(a, b) ==
    \A c \in Cells : (c > a /\ c < b) \/ (c > b /\ c < a) => squares[c] # "wall"

\* scatter: any cell of the cave within distance d of grid.
scatter(grid, d) == {c \in Cells : distance(grid, c) <= d}

\* ---------------------------------------------------- the location search

\* The number of attempts of the search loop.
LocAttempts == 60

\* The distance picked on attempt i.
ScatterRadius_Wide(i) == CDiv(i, 10) + 1

ScatterRadius(i) == CDiv(i, 15) + 1

\* The tests of the loop body: the cell is taken unless one of them continues.
CellOk(c) ==
    square_isempty(c) /\ ~(square_iswarded(c) \/ square_isdecoyed(c))

\* The ways the loop can end from attempt i on: found with the cell near picked
\* at distance d, or not found when i reaches LocAttempts.  An attempt goes on
\* to the next one only when scatter can pick a cell that is not taken.
RECURSIVE LocationSearch(_, _)
LocationSearch(grid, i) ==
    IF i >= LocAttempts
    THEN {[found |-> FALSE, d |-> 0, near |-> grid]}
    ELSE LET d == ScatterRadius(i)
             picks == scatter(grid, d)
         IN  {[found |-> TRUE, d |-> d, near |-> c] : c \in {p \in picks : CellOk(p)}}
             \cup (IF \E p \in picks : ~CellOk(p)
                   THEN LocationSearch(grid, i + 1)
                   ELSE {})

\* ------------------------------------------------------------ call_monster

can_call_monster(type, grid, mon) ==
    /\ mon.race # NoRace
    /\ SummonOkay(summons, summon_max, type, kin_base, r_info[mon.race])
    /\ ~los(grid, mon.grid)

\* mon_indices after the second pass: the callable entries, in rising order.
mon_indices(type, grid) ==
    LET good == {i \in 1 .. MaxMon : can_call_monster(type, grid, monsters[i])}
    IN  [k \in 1 .. Cardinality(good) |->
            CHOOSE i \in good : Cardinality({j \in good : j < i}) = k - 1]

\* randint0(M): a number in 0 .. M - 1, and 0 when M <= 1.
randint0(m) == IF m <= 1 THEN {0} ELSE 0 .. (m - 1)

\* The values choice can take for mon_count candidates.
CallChoices(mon_count) == randint0(mon_count - 1)

\* monster_swap: whatever stands on either cell moves to the other.
monster_swap(mons, g1, g2) ==
    [i \in 1 .. MaxMon |->
        IF mons[i].race = NoRace THEN mons[i]
        ELSE IF mons[i].grid = g1 THEN [mons[i] EXCEPT !.grid = g2]
        ELSE IF mons[i].grid = g2 THEN [mons[i] EXCEPT !.grid = g1]
        ELSE mons[i]]

\* monster_wake(mon, false, 100): awake, and aware with chance 100 in 100.
monster_wake(mon) == [mon EXCEPT !.asleep = FALSE, !.aware = TRUE]

\* What call_monster does to the monster array once entry idx is chosen.
CallEffect_KeepEnergy(mons, idx, grid) ==
    LET swapped == monster_swap(mons, mons[idx].grid, grid)
    IN  [swapped EXCEPT ![idx] = monster_wake(@)]

CallEffect(mons, idx, grid) ==
    LET swapped == monster_swap(mons, mons[idx].grid, grid)
    IN  [swapped EXCEPT ![idx] = [monster_wake(@) EXCEPT !.energy = 0]]

\* --------------------------------------------------------- summon_specific

\* The test that sends summon_specific to call_monster.
UseCall(type, call) ==
    /\ call
    /\ type # summon_name_to_idx("UNIQUE").ret
    /\ type # summon_name_to_idx("WRAITH").ret

\* The hook left installed by the last get_mon_num_prep of summon_specific.
SummonFinalHook_Stale == OkayHook

SummonFinalHook == NULL

\* place_new_monster(cave, near, race, false, ...): refused, or the race is put,
\* awake, in the first unused entry of the monster array.
place_new_monster(mons, near, race) ==
    {[ok |-> FALSE, mons |-> mons]} \cup
    {[ok |-> TRUE,
      mons |-> [mons EXCEPT ![i] = [race |-> race, grid |-> near, energy |-> 5,
                                    hold |-> 0, asleep |-> FALSE, aware |-> FALSE]]] :
        i \in {j \in 1 .. MaxMon : /\ mons[j].race = NoRace
                                   /\ \A k \in 1 .. (j - 1) : mons[k].race # NoRace}}

\* turns, from the placed monster's race speed and the player's speed.
HoldTurns(mspeed, pspeed) == CDiv(mspeed + 9 - pspeed, 10)

\* The "if (delay)" block applied to the placed monster.
DelayEffect(mon, delay) ==
    IF delay
    THEN LET turns == HoldTurns(r_info[mon.race].speed, player.speed)
         IN  IF turns # 0
             THEN [mon EXCEPT !.energy = 0, !.hold = turns]
             ELSE [mon EXCEPT !.energy = 0]
    ELSE mon

\* What the last summon_specific did: the path it left by, the cell found, the
\* value returned, the entry of the monster called or placed (0: none) and the
\* race get_mon_num returned (NoRace also when it was not called).
SummonResult(path, grid, type, delay, call, s, ret, who, race) ==
    [op |-> "summon_specific", path |-> path, grid |-> grid, type |-> type,
     delay |-> delay,
     call |-> call, d |-> s.d, near |-> s.near, ret |-> ret, who |-> who,
     race |-> race]

\* summon_specific.  The group information handed to place_new_monster (the
\* summoner's group, when cave->mon_current is set) reaches no state held here.
summon_specific(grid, lev, type, delay, call) ==
    /\ ~crashed
    /\ summons # <<>>
    /\ LiteralsResolve
    /\ \E s \in LocationSearch(grid, 0) :
         IF ~s.found
         THEN /\ result' = SummonResult("no_location", grid, type, delay, call, s, 0, 0, NoRace)
              /\ UNCHANGED <<summon_specific_type, mon_num_hook, monsters>>
         ELSE
         /\ summon_specific_type' = type
         /\ IF UseCall(type, call)
            THEN LET idx == mon_indices(type, s.near)
                 IN  /\ UNCHANGED mon_num_hook
                     /\ IF Len(idx) = 0
                        THEN /\ result' = SummonResult("call_none", grid, type, delay, call, s,
                                                       0, 0, NoRace)
                             /\ UNCHANGED monsters
                        ELSE \E choice \in CallChoices(Len(idx)) :
                               LET who == idx[choice + 1]
                               IN  /\ monsters' = CallEffect(monsters, who, s.near)
                                   /\ result' = SummonResult("called", grid, type, delay, call, s,
                                                   r_info[monsters[who].race].level,
                                                   who, NoRace)
            ELSE \E race \in get_mon_num(OkayHook, type, CDiv(player.depth + lev, 2) + 5) :
                   /\ mon_num_hook' = SummonFinalHook
                   /\ IF race = NoRace
                      THEN /\ result' = SummonResult("no_race", grid, type, delay, call, s,
                                                     0, 0, NoRace)
                           /\ UNCHANGED monsters
                      ELSE \E p \in place_new_monster(monsters, s.near, race) :
                             IF ~p.ok
                             THEN /\ result' = SummonResult("not_placed", grid, type, delay,
                                                            call, s, 0, 0, race)
                                  /\ UNCHANGED monsters
                             ELSE LET who == square_monster(p.mons, s.near)
                                  IN  /\ monsters' =
                                           [p.mons EXCEPT ![who] = DelayEffect(@, delay)]
                                      /\ result' = SummonResult("placed", grid, type, delay,
                                                      call, s, r_info[race].level,
                                                      who, race)
    /\ UNCHANGED <<parsed_summons, summons, summon_max, kin_base, squares, player,
                   crashed>>

\* ------------------------------------------------- the summoning specification

\* The summon types of the game: the three names the code looks up by literal
\* and an ordinary type restricted to one base.
GameCatalog ==
    << SummonRec("HOUND", "KIN", FALSE, RF_NONE, <<"canine">>),
       SummonRec("KIN", NULL, TRUE, RF_NONE, <<>>),
       SummonRec("UNIQUE", NULL, TRUE, RF_UNIQUE, <<>>),
       SummonRec("WRAITH", NULL, TRUE, RF_UNIQUE, <<"wraith">>) >>

GameTypes == 0 .. (Len(GameCatalog) - 1)

\* A monster as the level generator leaves it: asleep, unaware, with energy.
LiveMon(race, grid) ==
    [race |-> race, grid |-> grid, energy |-> 5, hold |-> 0,
     asleep |-> TRUE, aware |-> FALSE]

\* Monster arrays over terrain t with the first live entries in use: each of
\* them is unused or holds a monster on a passable cell of its own, and the
\* entries after them are unused.
MonsterArrays(t, races, live) ==
    {m \in [1 .. MaxMon -> {DeadMon} \cup {LiveMon(r, c) : r \in races, c \in Cells}] :
        /\ \A i \in 1 .. MaxMon : i > live => m[i] = DeadMon
        /\ \A i \in 1 .. MaxMon : m[i].race # NoRace => t[m[i].grid] # "wall"
        /\ \A i, j \in 1 .. MaxMon :
             (i # j /\ m[i].race # NoRace /\ m[j].race # NoRace) => m[i].grid # m[j].grid}

\* The cave of the summoning specification: a wall on cell 2, floor elsewhere.
WalledCave == [c \in Cells |-> IF c = 2 THEN "wall" ELSE "floor"]

\* No call has been made since the table was built.  Each behaviour is one call
\* of summon_specific or select_shape in a cave the game can be in.
Idle == result.op = "create_summons"

Init ==
    /\ parsed_summons = GameCatalog
    /\ summons = <<>>
    /\ summon_max = 0
    /\ crashed = FALSE
    /\ result = [op |-> "none"]
    /\ summon_specific_type = 0
    /\ kin_base = "wraith"
    /\ mon_num_hook = NULL
    /\ squares = WalledCave
    /\ monsters \in MonsterArrays(squares, {1, 5}, MaxMon - 1)
    /\ player = [depth |-> 4, speed |-> 120]

Next ==
    \/ create_summons
    \/ /\ Idle
       /\ \E grid \in {0, MaxCell}, type \in GameTypes, delay \in BOOLEAN, call \in BOOLEAN :
            summon_specific(grid, 3, type, delay, call)
    \/ /\ Idle
       /\ \E type \in GameTypes : select_shape(type)

Spec == Init /\ [][Next]_vars

\* ------------------------------------------- the location-search specification

\* Caves with any terrain, at most one glyph of warding and at most one decoy.
GlyphCaves ==
    {t \in [Cells -> Features] :
        /\ Cardinality({c \in Cells : t[c] = "ward"}) <= 1
        /\ Cardinality({c \in Cells : t[c] = "decoy"}) <= 1}

InitSearch ==
    /\ parsed_summons = GameCatalog
    /\ summons = <<>>
    /\ summon_max = 0
    /\ crashed = FALSE
    /\ result = [op |-> "none"]
    /\ summon_specific_type = 1
    /\ kin_base = "wraith"
    /\ mon_num_hook = NULL
    /\ squares \in GlyphCaves
    /\ monsters \in MonsterArrays(squares, {1}, 1)
    /\ player = [depth |-> 4, speed |-> 120]

NextSearch ==
    \/ create_summons
    \/ /\ Idle
       /\ \E call \in BOOLEAN : summon_specific(0, 3, 0, TRUE, call)

SpecSearch == InitSearch /\ [][NextSearch]_vars

\* ---------------------------------- the eligibility-predicate specification

\* Ways to fill a record's filters: uniques allowed or not, no required flag
\* or one, and a base list that is empty, a single base or both in either order.
Filters ==
    [unique_allowed : BOOLEAN,
     race_flag : {RF_NONE, RF_UNIQUE, RF_UNDEAD},
     bases : {<<>>, <<"canine">>, <<"wraith">>,
              <<"canine", "wraith">>, <<"wraith", "canine">>}]

\* Parsed lists of a "KIN" and a "HOUND" record, in either order.
OkayLists ==
    {<<SummonRec(n[1], NULL, f.unique_allowed, f.race_flag, f.bases),
       SummonRec(n[2], NULL, g.unique_allowed, g.race_flag, g.bases)>> :
        n \in {<<"KIN", "HOUND">>, <<"HOUND", "KIN">>}, f \in Filters, g \in Filters}

InitOkay ==
    /\ parsed_summons \in OkayLists
    /\ summons = <<>>
    /\ summon_max = 0
    /\ crashed = FALSE
    /\ result = [op |-> "none"]
    /\ summon_specific_type = 0
    /\ kin_base \in Bases \cup {NULL}
    /\ mon_num_hook = NULL
    /\ monsters = <<>>
    /\ squares = <<>>
    /\ player = [depth |-> 1, speed |-> 110]

NextOkay ==
    \/ create_summons
    \/ \E type \in 0 .. 1 : select_shape(type)

SpecOkay == InitOkay /\ [][NextOkay]_vars

\* The specification's filters, stated by what they admit.
PassesFilters(summon, race) ==
    /\ summon.bases = <<>> \/ \E k \in 1 .. Len(summon.bases) : summon.bases[k] = race.base
    /\ summon.race_flag = RF_NONE \/ summon.race_flag \in race.flags

ActiveSummon == summons[summon_specific_type + 1]

\* C7: with the active type named "KIN", a race is admitted exactly when it is
\* not unique, its base is kin_base and it passes the KIN record's base list
\* and required flag; a race select_shape draws for "KIN" is such a race.
C7_KinAdmission ==
    (summons # <<>> /\ ActiveSummon.name = "KIN") =>
        /\ \A r \in RaceIds :
             summon_specific_okay(r_info[r]) =
                 (/\ RF_UNIQUE \notin r_info[r].flags
                  /\ r_info[r].base = kin_base
                  /\ PassesFilters(ActiveSummon, r_info[r]))
        /\ (result.op = "select_shape" /\ result.ret # NoRace) =>
               /\ RF_UNIQUE \notin r_info[result.ret].flags
               /\ r_info[result.ret].base = kin_base
               /\ PassesFilters(ActiveSummon, r_info[result.ret])

\* A race was drawn for "KIN" whose record has a base list and a required flag.
C7_Witness ==
    /\ summons # <<>>
    /\ ActiveSummon.name = "KIN"
    /\ Len(ActiveSummon.bases) = 2
    /\ ActiveSummon.race_flag = RF_UNDEAD
    /\ ActiveSummon.unique_allowed
    /\ result.op = "select_shape"
    /\ result.ret # NoRace

\* C10: with an active type other than "KIN", a race is admitted exactly when
\* (uniques are allowed or it is not unique) and (the base list is empty or
\* holds its base, in any position) and (no flag is required or it has it).
C10_FilterAdmission ==
    (summons # <<>> /\ ActiveSummon.name # "KIN") =>
        /\ \A r \in RaceIds :
             summon_specific_okay(r_info[r]) =
                 (/\ ActiveSummon.unique_allowed \/ RF_UNIQUE \notin r_info[r].flags
                  /\ PassesFilters(ActiveSummon, r_info[r]))
        /\ (result.op = "select_shape" /\ result.ret # NoRace) =>
               /\ ActiveSummon.unique_allowed \/ RF_UNIQUE \notin r_info[result.ret].flags
               /\ PassesFilters(ActiveSummon, r_info[result.ret])

\* A race was drawn for "HOUND" whose base is the second of the record's list.
C10_Witness ==
    /\ summons # <<>>
    /\ ActiveSummon.name = "HOUND"
    /\ Len(ActiveSummon.bases) = 2
    /\ result.op = "select_shape"
    /\ result.ret # NoRace
    /\ r_info[result.ret].base = ActiveSummon.bases[2]

\* ----------------------------------------------------- summoning properties

\* The live entries of a monster array.
Live(mons) == {i \in 1 .. MaxMon : mons[i].race # NoRace}

\* C1: after summon_specific or select_shape has returned, by whatever path, no
\* restriction is installed on the pool, so a draw made then can return any race.
C1_RestrictionCleared ==
    (result.op \in {"summon_specific", "select_shape"}) =>
        /\ mon_num_hook = NULL
        /\ get_mon_num(mon_num_hook, summon_specific_type, 0) = {NoRace} \cup RaceIds

\* summon_specific restricted the pool, drew a race and placed it.
C1_Witness ==
    /\ result.op = "summon_specific"
    /\ result.path = "placed"
    /\ mon_num_hook = NULL

\* C2: for every target cell and summon type, the monsters call_monster can
\* select are exactly its candidates: live, admitted by the predicate and not
\* in line of sight of the cell.
C2_EveryCandidateSelectable ==
    (summons # <<>>) =>
        \A type \in GameTypes, grid \in Cells :
            LET idx == mon_indices(type, grid)
                selectable == {idx[choice + 1] : choice \in CallChoices(Len(idx))}
            IN  Len(idx) >= 1 =>
                    /\ selectable = {idx[k] : k \in 1 .. Len(idx)}
                    /\ \A i \in selectable :
                         /\ i >= 1
                         /\ monsters[i].race # NoRace
                         /\ ~los(grid, monsters[i].grid)

\* C3: a monster placed with delay has energy 0, and its held duration is
\* turns = floor((speed + 9 - player speed) / 10) when turns > 0 and is left
\* as placed (0) otherwise; it is never negative.
C3_HoldOnlyWhenFaster ==
    (result.op = "summon_specific" /\ result.path = "placed" /\ result.delay) =>
        LET mon == monsters[result.who]
            turns == (r_info[mon.race].speed + 9 - player.speed) \div 10
        IN  /\ mon.energy = 0
            /\ mon.hold = (IF turns > 0 THEN turns ELSE 0)
            /\ mon.hold >= 0

\* C4: summon_specific returns 0 exactly when no monster was placed or called,
\* and the level of the monster placed or called otherwise.
C4_ZeroIffNothingSummoned ==
    (result.op = "summon_specific") =>
        /\ (result.ret = 0) <=> (result.who = 0)
        /\ result.who # 0 => result.ret = r_info[monsters[result.who].race].level

\* A cell the search may take: open, unoccupied, without ward or decoy.
Legal(c) == squares[c] = "floor" /\ \A i \in Live(monsters) : monsters[i].grid # c

C8_CallRelocatesOne ==
    [][ (/\ result'.op = "summon_specific"
         /\ result'.path # "no_location"
         /\ result'.call
         /\ summons[result'.type + 1].name \notin {"UNIQUE", "WRAITH"}) =>
            LET idx == mon_indices(result'.type, result'.near)
                who == result'.who
            IN  /\ result'.race = NoRace
                /\ mon_num_hook' = mon_num_hook
                /\ Live(monsters') = Live(monsters)
                /\ IF Len(idx) = 0
                   THEN /\ result'.ret = 0
                        /\ who = 0
                        /\ monsters' = monsters
                   ELSE /\ who \in {idx[k] : k \in 1 .. Len(idx)}
                        /\ result'.ret = r_info[monsters[who].race].level
                        /\ monsters'[who] =
                             [monsters[who] EXCEPT !.grid = result'.near,
                                                   !.asleep = FALSE,
                                                   !.aware = TRUE,
                                                   !.energy = 0]
                        /\ \A i \in 1 .. MaxMon : i # who => monsters'[i] = monsters[i]
      ]_vars

\* A monster was called while another live monster stayed where it was.
C8_Witness ==
    /\ result.op = "summon_specific"
    /\ result.path = "called"
    /\ result.call
    /\ Cardinality(Live(monsters)) >= 2
    /\ monsters[result.who].grid = result.near
    /\ monsters[result.who].energy = 0

\* C9: after create_summons over N parsed records the record count is N, entry
\* i holds the i-th parsed record, and summon_desc returns none for every index
\* outside [0, N) while reading only entries of the table.
C9_CountIsParsedLength ==
    (summons # <<>>) =>
        LET N == Len(parsed_summons)
        IN  /\ summon_max = N
            /\ \A i \in 1 .. N : summons[i].name = parsed_summons[i].name
            /\ (result.op = "describe" /\ result.type \notin 0 .. (N - 1)) =>
                   /\ result.ret = NULL
                   /\ result.reads \subseteq 0 .. (Len(summons) - 1)

\* C5: after the build, summon_name_to_idx(name) returns the index in 0 .. N-1
\* of the record named name when there is one and -1 otherwise (a null or
\* empty name included), comparing name only against the N parsed records.
C5_LookupExact ==
    (result.op = "lookup") =>
        LET N == Len(parsed_summons)
            match == {i \in 0 .. (N - 1) : parsed_summons[i + 1].name = result.name}
        IN  /\ ~result.crash
            /\ result.ret \in (IF match = {} THEN {-1} ELSE match)
            /\ result.compared \subseteq 0 .. (N - 1)

====
